---------------------------- MODULE Spec2Model ----------------------------
(***************************************************************************)
(* Model of the client mixing engine and of the generation handler of the  *)
(* Resonance / Storyboard pages (src/app/page.tsx, src/unnamed/part_004).  *)
(*                                                                         *)
(* Time is counted in ticks of 1/44100 s, the length of one sample of the  *)
(* silent placeholder buffer, so that every constant of the code is an     *)
(* integer: 0.12 s = 5292 ticks, 0.5 s = 22050 ticks, 1 s = 44100 ticks.   *)
(* Floating-point rounding of the sums is not modelled.                    *)
(***************************************************************************)
EXTENDS Integers, Sequences, FiniteSets, TLC

VARIABLES
    page,           \* which page component runs: "Home" or "UploadPage"
    mounted,        \* the page component is mounted
    text,           \* useState text: "script" (non-blank) or "blank"
    loading,        \* useState loading
    status,         \* useState status
    result,         \* useState result: NoResult or the accepted response
    audioUrl,       \* useState audioUrl: NoUrl or an object URL
    prevAudioUrl,   \* useRef prevAudioUrl.current
    pc,             \* position of the handleGenerate run in flight
    res,            \* the fetch Response the run holds (its ok flag)
    data,           \* the parsed body the run holds
    mix,            \* what the last mixAudio call computed, NoMix before
    alive,          \* object URLs created and not revoked
    created,        \* number of object URLs created so far
    generations,    \* number of handleGenerate runs started
    currentScene,   \* useState currentScene
    currentTime,    \* useState currentTime
    totalDuration,  \* useState totalDuration
    audio,          \* audioRef.current: NoAudio or the <audio> element's state
    isDragging,     \* useRef isDragging.current
    event,          \* the last DOM event of the player, and what its handler did
    pointer,        \* the last of mouse-down, -up and -leave the timeline received
    call            \* the last call of a helper function: its argument and its value

(* the player state of Home *)
playerVars ==
    <<currentScene, currentTime, totalDuration, audio, isDragging, event, pointer>>

vars == <<page, mounted, text, loading, status, result, audioUrl, prevAudioUrl,
          pc, res, data, mix, alive, created, generations,
          currentScene, currentTime, totalDuration, audio, isDragging, event, pointer,
          call>>

-----------------------------------------------------------------------------
(* Bounds of the model *)

MaxLines == 3

MaxPageLines == 1

MaxGenerations == 2

(* dialogue clips of a body whose render is studied *)
MaxRenderLines == 2

(* entries of sceneStartTimes in a result the player shows *)
MaxSceneTimes == 3

(* frames of a buffer written as a WAV file *)
MaxFrames == 2

(* segments of a script given to buildVoiceMap *)
MaxSegments == 6

(* Program constants, in ticks of 1/44100 s *)

TicksPerSecond == 44100

GAP_DLG_TO_DLG == 5292

GAP_BETWEEN_SCENES == 22050

(* sample values and gains are counted in thousandths: 1.0 *)
FullScale == 1000

(* const TARGET_PEAK = 0.6 *)
TARGET_PEAK == 600

(* gain.gain.value = 0.18 *)
MUSIC_GAIN == 180

-----------------------------------------------------------------------------
(* Values *)

NoUrl == [kind |-> "null"]

Url(n) == [kind |-> "blob", id |-> n]

NoResult == [kind |-> "null"]

NoMix == [kind |-> "none"]

NoData == [kind |-> "none"]

(* audioRef.current while the <audio> element is not rendered *)
NoAudio == [kind |-> "null"]

(* a freshly rendered <audio src={audioUrl}>: at 0, paused, with the duration *)
(* of the file behind the URL, in ticks                                      *)
NewAudio(duration) ==
    [kind |-> "audio", currentTime |-> 0, paused |-> TRUE, duration |-> duration]

NoEvent == [type |-> "none"]

NoCall == [fn |-> "none"]

SeqsUpTo(S, n) == UNION {[1..k -> S] : k \in 0..n}

Max2(a, b) == IF a >= b THEN a ELSE b

(* An AudioBuffer as createBuffer yields it: duration in ticks, sample rate, *)
(* channel count, and zeroed channel data. Sample values are counted in     *)
(* thousandths of full scale, and a channel is given by a few samples that   *)
(* stand for all its frames.                                                *)
AudioBuffer(d, sr, ch) ==
    [duration |-> d, sampleRate |-> sr, numberOfChannels |-> ch,
     channelData |-> [c \in 1..ch |-> <<0>>]]

(* a decoded buffer with the given samples, one sequence per channel *)
DecodedBuffer(d, sr, channelData) ==
    [duration |-> d, sampleRate |-> sr, numberOfChannels |-> Len(channelData),
     channelData |-> channelData]

(* new AudioContext().createBuffer(1, 1, 44100): one channel, one sample. *)
SilentBuffer == AudioBuffer(1, TicksPerSecond, 1)

(* A base64 clip is abstracted to whether it decodes and to the buffer that  *)
(* decodeAudioData yields when it does.                                     *)
Clip(d) == [decodes |-> TRUE, buffer |-> AudioBuffer(d, TicksPerSecond, 1)]

BadClip == [decodes |-> FALSE, buffer |-> AudioBuffer(0, TicksPerSecond, 1)]

(* a clip that decodes to a buffer of the given rate and samples *)
SampledClip(d, sr, channelData) ==
    [decodes |-> TRUE, buffer |-> DecodedBuffer(d, sr, channelData)]

(* decodeB64Audio: resolves with the decoded buffer or rejects. *)
Decodes(b64) == b64.decodes

decodeB64Audio(b64) == b64.buffer

-----------------------------------------------------------------------------
(* mixAudio *)

(* for (const b64 of linesAudio) try push(decode) catch push(silent) *)
DecodeLine(b64) == IF Decodes(b64) THEN decodeB64Audio(b64) ELSE SilentBuffer

(* a variant that drops a line that fails to decode, as the effect loop does *)
LineBuffersSkipFailed(linesAudio) ==
    LET ok == SelectSeq(linesAudio, Decodes)
    IN [i \in 1..Len(ok) |-> decodeB64Audio(ok[i])]

LineBuffers(linesAudio) == [i \in 1..Len(linesAudio) |-> DecodeLine(linesAudio[i])]

(* a variant with the two gaps exchanged *)
GapExchanged(prev, cur) ==
    IF prev.sceneIndex # cur.sceneIndex THEN GAP_DLG_TO_DLG ELSE GAP_BETWEEN_SCENES

(* the gap added before line i > 0 *)
Gap(prev, cur) ==
    IF prev.sceneIndex # cur.sceneIndex THEN GAP_BETWEEN_SCENES ELSE GAP_DLG_TO_DLG

(* lineBuffers[i]?.duration ?? 0 *)
LineDuration(lineBuffers, i) ==
    IF i \in DOMAIN lineBuffers THEN lineBuffers[i].duration ELSE 0

RECURSIVE TimelineLoop(_, _, _, _, _)
TimelineLoop(i, cursor, startTimes, dialogueLines, lineBuffers) ==
    IF i > Len(dialogueLines)
    THEN [startTimes |-> startTimes, cursor |-> cursor]
    ELSE LET c == IF i > 1
                  THEN cursor + Gap(dialogueLines[i - 1], dialogueLines[i])
                  ELSE cursor
         IN TimelineLoop(i + 1, c + LineDuration(lineBuffers, i),
                         Append(startTimes, c), dialogueLines, lineBuffers)

(* a variant written with || : a scene start of 0 falls back to the offset *)
PlacementTimeFalsy(sceneStartTimes, clip) ==
    IF /\ clip.sceneIndex + 1 \in DOMAIN sceneStartTimes
       /\ sceneStartTimes[clip.sceneIndex + 1] # 0
    THEN sceneStartTimes[clip.sceneIndex + 1]
    ELSE clip.startTime

(* sceneStartTimes[clip.sceneIndex] ?? clip.startTime (scene indices from 0) *)
PlacementTime(sceneStartTimes, clip) ==
    IF clip.sceneIndex + 1 \in DOMAIN sceneStartTimes
    THEN sceneStartTimes[clip.sceneIndex + 1]
    ELSE clip.startTime

(* for (const c of list) try push({buffer, startTime}) catch skip *)
RECURSIVE DecodeClips(_, _)
DecodeClips(list, sceneStartTimes) ==
    IF list = <<>> THEN <<>>
    ELSE LET c == Head(list)
             rest == DecodeClips(Tail(list), sceneStartTimes)
         IN IF Decodes(c.audioBase64)
            THEN <<[buffer |-> decodeB64Audio(c.audioBase64),
                    startTime |-> PlacementTime(sceneStartTimes, c)]>> \o rest
            ELSE rest

(* decoded.reduce((m, {buffer, startTime}) => max(m, startTime + duration), 0) *)
RECURSIVE LatestEnd(_)
LatestEnd(decoded) ==
    IF decoded = <<>> THEN 0
    ELSE Max2(Head(decoded).startTime + Head(decoded).buffer.duration,
              LatestEnd(Tail(decoded)))

TotalDuration(cursor, sfxDecoded, musicDecoded) ==
    Max2(cursor, Max2(LatestEnd(sfxDecoded), LatestEnd(musicDecoded)))

(* Math.abs *)
Abs(x) == IF x < 0 THEN -x ELSE x

(* for (s = 0; s < data.length; s++) if (abs > peak) peak = abs *)
RECURSIVE PeakOfSamples(_, _)
PeakOfSamples(samples, peak) ==
    IF samples = <<>> THEN peak
    ELSE PeakOfSamples(Tail(samples),
                       IF Abs(Head(samples)) > peak THEN Abs(Head(samples)) ELSE peak)

(* for (ch = 0; ch < buffer.numberOfChannels; ch++) over getChannelData(ch) *)
RECURSIVE PeakOfChannels(_, _, _)
PeakOfChannels(buffer, ch, peak) ==
    IF ch > buffer.numberOfChannels THEN peak
    ELSE PeakOfChannels(buffer, ch + 1, PeakOfSamples(buffer.channelData[ch], peak))

Peak(buffer) == PeakOfChannels(buffer, 1, 0)

(* a gain value, the fraction num / den *)
Fraction(num, den) == [num |-> num, den |-> den]

(* a gain that divides by the peak even when the peak is 0: Infinity *)
SfxGainDividing(buffer) == Fraction(TARGET_PEAK, Peak(buffer))

(* a gain that only attenuates: clips already below the target are left alone *)
SfxGainAttenuating(buffer) ==
    IF Peak(buffer) > TARGET_PEAK THEN Fraction(TARGET_PEAK, Peak(buffer))
    ELSE Fraction(FullScale, FullScale)

(* gain.gain.value = peak > 0 ? TARGET_PEAK / peak : TARGET_PEAK *)
SfxGain(buffer) ==
    IF Peak(buffer) > 0 THEN Fraction(TARGET_PEAK, Peak(buffer))
    ELSE Fraction(TARGET_PEAK, FullScale)

(* music normalised like an effect *)
MusicGainNormalized(buffer) == SfxGain(buffer)

(* gain.gain.value = 0.18 *)
MusicGain(buffer) == Fraction(MUSIC_GAIN, FullScale)

(* each decoded effect goes through its own gain node and starts at startTime *)
ScheduleSfx(sfxDecoded) ==
    [k \in 1..Len(sfxDecoded) |->
        [buffer |-> sfxDecoded[k].buffer, startTime |-> sfxDecoded[k].startTime,
         gain |-> SfxGain(sfxDecoded[k].buffer)]]

ScheduleMusic(musicDecoded) ==
    [k \in 1..Len(musicDecoded) |->
        [buffer |-> musicDecoded[k].buffer, startTime |-> musicDecoded[k].startTime,
         gain |-> MusicGain(musicDecoded[k].buffer)]]

(* src.start(startTimes[i]): an undefined argument starts the source at 0 *)
StartArg(startTimes, i) == IF i \in DOMAIN startTimes THEN startTimes[i] ELSE 0

ScheduleDialogue(lineBuffers, startTimes) ==
    [i \in 1..Len(lineBuffers) |->
        [buffer |-> lineBuffers[i], startTime |-> StartArg(startTimes, i)]]

(* a context that is always 44.1 kHz *)
SampleRateFixed(lineBuffers) == TicksPerSecond

(* lineBuffers[0]?.sampleRate ?? 44100 *)
SampleRate(lineBuffers) ==
    IF lineBuffers # <<>> THEN lineBuffers[1].sampleRate ELSE TicksPerSecond

(* lineBuffers[0]?.numberOfChannels ?? 1 *)
NumChannels(lineBuffers) ==
    IF lineBuffers # <<>> THEN lineBuffers[1].numberOfChannels ELSE 1

(* Math.ceil(t * sampleRate) for t in ticks, seconds and remainder apart so *)
(* that no product leaves 32 bits                                           *)
CeilFrames(t, sampleRate) ==
    (t \div TicksPerSecond) * sampleRate
        + ((t % TicksPerSecond) * sampleRate + TicksPerSecond - 1) \div TicksPerSecond

(* Math.max(1, Math.ceil(totalDuration * sampleRate)), in frames *)
RenderLength(total, sampleRate) ==
    Max2(1, CeilFrames(total, sampleRate))

(* the duration of the rendered file in ticks: length frames at sampleRate *)
AudioDuration(m) ==
    (m.length \div m.sampleRate) * TicksPerSecond
        + ((m.length % m.sampleRate) * TicksPerSecond) \div m.sampleRate

mixAudio(linesAudio, dialogueLines, sfxList, musicList, sceneStartTimes) ==
    LET lineBuffers == LineBuffers(linesAudio)
        tl == TimelineLoop(1, 0, <<>>, dialogueLines, lineBuffers)
        sfxDecoded == DecodeClips(sfxList, sceneStartTimes)
        musicDecoded == DecodeClips(musicList, sceneStartTimes)
        total == TotalDuration(tl.cursor, sfxDecoded, musicDecoded)
    IN [kind |-> "mix",
        linesAudio |-> linesAudio,
        dialogueLines |-> dialogueLines,
        sfxList |-> sfxList,
        musicList |-> musicList,
        sceneStartTimes |-> sceneStartTimes,
        lineBuffers |-> lineBuffers,
        startTimes |-> tl.startTimes,
        cursor |-> tl.cursor,
        sfxDecoded |-> sfxDecoded,
        musicDecoded |-> musicDecoded,
        totalDuration |-> total,
        sampleRate |-> SampleRate(lineBuffers),
        numChannels |-> NumChannels(lineBuffers),
        length |-> RenderLength(total, SampleRate(lineBuffers)),
        dialogueScheduled |-> ScheduleDialogue(lineBuffers, tl.startTimes),
        sfxScheduled |-> ScheduleSfx(sfxDecoded),
        musicScheduled |-> ScheduleMusic(musicDecoded)]

-----------------------------------------------------------------------------
(* mixAudio of UploadPage (src/unnamed/part_004), statement by statement *)

(* const ctx = new AudioContext(); ctx.createBuffer(1, 1, 44100); ctx.close() *)
UploadSilentBuffer == AudioBuffer(1, TicksPerSecond, 1)

(* for (const b64 of linesAudio) { try { push(decode) } catch { push(silent) } } *)
RECURSIVE UploadLineLoop(_, _)
UploadLineLoop(linesAudio, lineBuffers) ==
    IF linesAudio = <<>> THEN lineBuffers
    ELSE UploadLineLoop(Tail(linesAudio),
                        Append(lineBuffers,
                               IF Decodes(Head(linesAudio))
                               THEN decodeB64Audio(Head(linesAudio))
                               ELSE UploadSilentBuffer))

(* for (let i = 0; i < dialogueLines.length; i++) { gap; push(cursor); advance } *)
RECURSIVE UploadTimelineLoop(_, _, _, _, _)
UploadTimelineLoop(i, cursor, startTimes, dialogueLines, lineBuffers) ==
    IF i >= Len(dialogueLines)
    THEN [startTimes |-> startTimes, cursor |-> cursor]
    ELSE LET gap == IF i > 0
                    THEN IF dialogueLines[i].sceneIndex # dialogueLines[i + 1].sceneIndex
                         THEN GAP_BETWEEN_SCENES
                         ELSE GAP_DLG_TO_DLG
                    ELSE 0
             start == cursor + gap
             duration == IF i < Len(lineBuffers) THEN lineBuffers[i + 1].duration ELSE 0
         IN UploadTimelineLoop(i + 1, start + duration, Append(startTimes, start),
                               dialogueLines, lineBuffers)

(* for (const c of list) { try { push({buffer, startTime: times[c.sceneIndex] ?? c.startTime}) } catch {} } *)
RECURSIVE UploadDecodeLoop(_, _, _)
UploadDecodeLoop(list, sceneStartTimes, decoded) ==
    IF list = <<>> THEN decoded
    ELSE LET c == Head(list)
             startTime == IF c.sceneIndex < Len(sceneStartTimes)
                          THEN sceneStartTimes[c.sceneIndex + 1]
                          ELSE c.startTime
         IN UploadDecodeLoop(Tail(list), sceneStartTimes,
                             IF Decodes(c.audioBase64)
                             THEN Append(decoded, [buffer |-> decodeB64Audio(c.audioBase64),
                                                   startTime |-> startTime])
                             ELSE decoded)

(* decoded.reduce((m, {buffer, startTime}) => Math.max(m, startTime + buffer.duration), 0) *)
RECURSIVE UploadReduceEnd(_, _)
UploadReduceEnd(decoded, m) ==
    IF decoded = <<>> THEN m
    ELSE UploadReduceEnd(Tail(decoded),
                         Max2(m, Head(decoded).startTime + Head(decoded).buffer.duration))

(* the two loops over the channels and the samples of an effect *)
RECURSIVE UploadPeakLoop(_, _, _, _)
UploadPeakLoop(buffer, ch, s, peak) ==
    IF ch >= buffer.numberOfChannels THEN peak
    ELSE IF s >= Len(buffer.channelData[ch + 1]) THEN UploadPeakLoop(buffer, ch + 1, 0, peak)
    ELSE UploadPeakLoop(buffer, ch, s + 1,
                        IF Abs(buffer.channelData[ch + 1][s + 1]) > peak
                        THEN Abs(buffer.channelData[ch + 1][s + 1])
                        ELSE peak)

(* gain.gain.value = peak > 0 ? TARGET_PEAK / peak : TARGET_PEAK *)
UploadSfxGain(buffer) ==
    LET peak == UploadPeakLoop(buffer, 0, 0, 0)
    IN IF peak > 0 THEN Fraction(TARGET_PEAK, peak) ELSE Fraction(TARGET_PEAK, FullScale)

(* music at full level *)
UploadMusicGainFull(buffer) == Fraction(FullScale, FullScale)

(* gain.gain.value = 0.18 *)
UploadMusicGain(buffer) == Fraction(MUSIC_GAIN, FullScale)

(* for (let i = 0; i < lineBuffers.length; i++) src.start(startTimes[i]) *)
UploadScheduleDialogue(lineBuffers, startTimes) ==
    [i \in 1..Len(lineBuffers) |->
        [buffer |-> lineBuffers[i],
         startTime |-> IF i <= Len(startTimes) THEN startTimes[i] ELSE 0]]

mixAudioUpload(linesAudio, dialogueLines, sfxList, musicList, sceneStartTimes) ==
    LET lineBuffers == UploadLineLoop(linesAudio, <<>>)
        tl == UploadTimelineLoop(0, 0, <<>>, dialogueLines, lineBuffers)
        sfxDecoded == UploadDecodeLoop(sfxList, sceneStartTimes, <<>>)
        musicDecoded == UploadDecodeLoop(musicList, sceneStartTimes, <<>>)
        sampleRate == IF Len(lineBuffers) > 0 THEN lineBuffers[1].sampleRate
                      ELSE TicksPerSecond
        numChannels == IF Len(lineBuffers) > 0 THEN lineBuffers[1].numberOfChannels ELSE 1
        total == Max2(Max2(tl.cursor, UploadReduceEnd(sfxDecoded, 0)),
                      UploadReduceEnd(musicDecoded, 0))
    IN [kind |-> "mix",
        linesAudio |-> linesAudio,
        dialogueLines |-> dialogueLines,
        sfxList |-> sfxList,
        musicList |-> musicList,
        sceneStartTimes |-> sceneStartTimes,
        lineBuffers |-> lineBuffers,
        startTimes |-> tl.startTimes,
        cursor |-> tl.cursor,
        sfxDecoded |-> sfxDecoded,
        musicDecoded |-> musicDecoded,
        totalDuration |-> total,
        sampleRate |-> sampleRate,
        numChannels |-> numChannels,
        length |-> Max2(1, CeilFrames(total, sampleRate)),
        dialogueScheduled |-> UploadScheduleDialogue(lineBuffers, tl.startTimes),
        sfxScheduled |->
            [k \in 1..Len(sfxDecoded) |->
                [buffer |-> sfxDecoded[k].buffer, startTime |-> sfxDecoded[k].startTime,
                 gain |-> UploadSfxGain(sfxDecoded[k].buffer)]],
        musicScheduled |->
            [k \in 1..Len(musicDecoded) |->
                [buffer |-> musicDecoded[k].buffer, startTime |-> musicDecoded[k].startTime,
                 gain |-> UploadMusicGain(musicDecoded[k].buffer)]]]

-----------------------------------------------------------------------------
(* Inputs of mixAudio *)

(* 1.0 s, 1.5 s and 2.0 s *)
DurationVals == {44100, 66150, 88200}

LineClips == {BadClip} \cup {Clip(d) : d \in DurationVals}

SceneIndices == 0..1

DialogueLines == [sceneIndex : SceneIndices]

(* 0 s and 3.12 s *)
SceneTimeVals == {0, 137592}

SceneStartTimesVals == SeqsUpTo(SceneTimeVals, 2)

(* a 5 s effect and a 6 s music bed, with a server offset of 1/6 s *)
SfxItems == [sceneIndex : SceneIndices, startTime : {7350},
             audioBase64 : {BadClip, Clip(220500)}]

MusicItems == [sceneIndex : SceneIndices, startTime : {7350},
               audioBase64 : {BadClip, Clip(264600)}]

SfxLists == SeqsUpTo(SfxItems, 1)

MusicLists == SeqsUpTo(MusicItems, 1)

(* the scenes of a two-scene script: result.scenes *)
ScriptScenes == [i \in 1..2 |-> [index |-> i - 1]]

(* A body of /api/generate, as far as the page reads it. *)
ScriptBodies(lineClips, maxLines) ==
    [kind : {"script"},
     scenes : {ScriptScenes},
     dialogueLines : SeqsUpTo(DialogueLines, maxLines),
     linesAudio : SeqsUpTo(lineClips, maxLines),
     sfxList : SfxLists,
     musicList : MusicLists,
     hasSceneStartTimes : BOOLEAN,
     sceneStartTimes : SceneStartTimesVals]

(* a body whose sceneStartTimes field is missing carries no times *)
WellFormed(body) == body.hasSceneStartTimes \/ body.sceneStartTimes = <<>>

(* { error: "..." } *)
ErrorBody == [kind |-> "error"]

(* a body without linesAudio: for (const b64 of undefined) throws *)
MalformedBody == [kind |-> "malformed"]

EmptyScriptBody ==
    [kind |-> "script", scenes |-> <<>>, dialogueLines |-> <<>>, linesAudio |-> <<>>,
     sfxList |-> <<>>, musicList |-> <<>>, hasSceneStartTimes |-> FALSE,
     sceneStartTimes |-> <<>>]

(* the number of audio clips a body carries *)
NumClips(body) == Len(body.linesAudio) + Len(body.sfxList) + Len(body.musicList)

(* the bodies the page receives over its generations *)
PageBodies ==
    {b \in ScriptBodies({BadClip, Clip(44100)}, MaxPageLines) : WellFormed(b)}
        \cup {ErrorBody, MalformedBody}

(* the bodies mixAudio is studied on: two scenes, at most MaxLines clips *)
MixBodies ==
    {b \in ScriptBodies(LineClips, MaxLines) :
        WellFormed(b) /\ NumClips(b) <= MaxLines}
        \cup {MalformedBody}

-----------------------------------------------------------------------------
(* The page component: Home (src/app/page.tsx) or UploadPage (part_004) *)

Pages == {"Home", "UploadPage"}

StatusStart ==
    [Home |-> "Parsing script...",
     UploadPage |-> "Analyzing script and generating voices..."]

StatusMixing ==
    [Home |-> "Mixing audio...",
     UploadPage |-> "Mixing dialogue, SFX, and soundtrack..."]

StatusDone == [Home |-> "", UploadPage |-> "Ready."]

StatusBlank == "Please paste script text to continue."

(* `Error: ${data.error ?? "Unknown error"}` and `Error: ${err.message}` *)
ErrorStatuses == {"Error: <data.error>", "Error: Unknown error", "Error: <exception>"}

ResponseError(body) ==
    IF body.kind = "error" THEN "Error: <data.error>" ELSE "Error: Unknown error"

(* A state setter of a component that has unmounted changes nothing. *)
SetState(cur, new) == IF mounted THEN new ELSE cur

(* a variant that forgets the revoke *)
revokeNothing(urls, prev) == urls

(* if (prevAudioUrl.current) URL.revokeObjectURL(prevAudioUrl.current) *)
revokeObjectURL(urls, prev) == IF prev # NoUrl THEN urls \ {prev} ELSE urls

(* a button that is never disabled *)
ButtonNeverDisabled == FALSE

(* disabled={loading || !text.trim()} on Home, disabled={loading} on UploadPage *)
ButtonDisabled ==
    IF page = "Home" THEN loading \/ text = "blank" ELSE loading

(* a variant that passes no scene start times to mixAudio *)
NoSceneStartTimes(body) == <<>>

(* data.sceneStartTimes ?? [], the last argument of the mixAudio call *)
SceneStartTimesArg(body) ==
    IF body.hasSceneStartTimes THEN body.sceneStartTimes ELSE <<>>

(* const sceneStartTimes = result?.sceneStartTimes ?? [] *)
resultSceneStartTimes(r) ==
    IF r # NoResult /\ r.hasSceneStartTimes THEN r.sceneStartTimes ELSE <<>>

(* a variant that draws one card per scene start time *)
SceneCardStartsPerTime(r) == resultSceneStartTimes(r)

(* result.scenes.map((scene, i) => sceneStartTimes[i] ?? 0): the timeline cards *)
SceneCardStarts(r) ==
    [i \in 1..Len(r.scenes) |->
        IF i \in DOMAIN resultSceneStartTimes(r) THEN resultSceneStartTimes(r)[i] ELSE 0]

(* a variant without the try/catch around each decode *)
MixThrowsOnDecodeFailure(body) ==
    IF body.kind = "malformed" THEN TRUE
    ELSE \/ \E i \in DOMAIN body.linesAudio : ~Decodes(body.linesAudio[i])
         \/ \E i \in DOMAIN body.sfxList : ~Decodes(body.sfxList[i].audioBase64)
         \/ \E i \in DOMAIN body.musicList : ~Decodes(body.musicList[i].audioBase64)

(* mixAudio rejects when it cannot iterate data.linesAudio; a clip that fails *)
(* to decode is caught inside mixAudio.                                       *)
MixThrows(body) == body.kind = "malformed"

Init ==
    /\ page \in Pages
    /\ mounted = TRUE
    /\ text = "script"
    /\ loading = FALSE
    /\ status = ""
    /\ result = NoResult
    /\ audioUrl = NoUrl
    /\ prevAudioUrl = NoUrl
    /\ pc = "idle"
    /\ res = FALSE
    /\ data = NoData
    /\ mix = NoMix
    /\ alive = {}
    /\ created = 0
    /\ generations = 0
    /\ currentScene = 0
    /\ currentTime = 0
    /\ totalDuration = 0
    /\ audio = NoAudio
    /\ isDragging = FALSE
    /\ event = NoEvent
    /\ pointer = "none"
    /\ call = NoCall

(* textarea onChange={e => setText(e.target.value)}, disabled={loading} *)
setText ==
    /\ mounted
    /\ ~loading
    /\ text' = IF text = "script" THEN "blank" ELSE "script"
    /\ UNCHANGED <<page, mounted, loading, status, result, audioUrl, prevAudioUrl,
                   pc, res, data, mix, alive, created, generations, playerVars, call>>

(* a handler that tests the text only after it has cleared the last result *)
handleGenerateBlankClearing ==
    /\ mounted
    /\ ~ButtonDisabled
    /\ text = "blank"
    /\ result' = NoResult
    /\ alive' = revokeObjectURL(alive, prevAudioUrl)
    /\ prevAudioUrl' = NoUrl
    /\ audioUrl' = NoUrl
    /\ status' = IF page = "UploadPage" THEN StatusBlank ELSE status
    /\ UNCHANGED <<page, mounted, text, loading, pc, res, data, mix, created,
                   generations, playerVars, call>>

(* handleGenerate with blank text: the early return *)
handleGenerateBlank ==
    /\ mounted
    /\ ~ButtonDisabled
    /\ text = "blank"
    /\ status' = IF page = "UploadPage" THEN StatusBlank ELSE status
    /\ UNCHANGED <<page, mounted, text, loading, result, audioUrl, prevAudioUrl,
                   pc, res, data, mix, alive, created, generations, playerVars, call>>

(* handleGenerate up to its first await *)
handleGenerate ==
    /\ mounted
    /\ ~ButtonDisabled
    /\ text # "blank"
    /\ generations < MaxGenerations
    /\ generations' = generations + 1
    /\ loading' = TRUE
    /\ status' = StatusStart[page]
    /\ result' = NoResult
    /\ alive' = revokeObjectURL(alive, prevAudioUrl)
    /\ prevAudioUrl' = NoUrl
    /\ audioUrl' = NoUrl
    /\ pc' = "fetch"
    /\ res' = FALSE
    /\ data' = NoData
    /\ mix' = NoMix
    /\ currentScene' = 0
    /\ currentTime' = 0
    /\ totalDuration' = 0
    /\ audio' = NoAudio
    /\ UNCHANGED <<page, mounted, text, created, isDragging, event, pointer, call>>

(* a handler without the finally block *)
CaughtWithoutFinally ==
    /\ status' = SetState(status, "Error: <exception>")
    /\ loading' = loading
    /\ pc' = "idle"

(* a catch block that reports nothing *)
CaughtSilently ==
    /\ status' = status
    /\ loading' = SetState(loading, FALSE)
    /\ pc' = "idle"

(* catch (err) { setStatus(`Error: ...`) } finally { setLoading(false) } *)
Caught ==
    /\ status' = SetState(status, "Error: <exception>")
    /\ loading' = SetState(loading, FALSE)
    /\ pc' = "idle"

(* await fetch(...) rejects *)
fetchRejected ==
    /\ pc = "fetch"
    /\ Caught
    /\ UNCHANGED <<page, mounted, text, result, audioUrl, prevAudioUrl,
                   res, data, mix, alive, created, generations, playerVars, call>>

(* await fetch(...) resolves; Home then shows "Mixing audio..." *)
fetchResolved ==
    /\ pc = "fetch"
    /\ \E ok \in BOOLEAN : res' = ok
    /\ status' = IF page = "Home" THEN SetState(status, StatusMixing[page]) ELSE status
    /\ pc' = "json"
    /\ UNCHANGED <<page, mounted, text, loading, result, audioUrl, prevAudioUrl,
                   data, mix, alive, created, generations, playerVars, call>>

(* await res.json() rejects *)
jsonRejected ==
    /\ pc = "json"
    /\ Caught
    /\ UNCHANGED <<page, mounted, text, result, audioUrl, prevAudioUrl,
                   res, data, mix, alive, created, generations, playerVars, call>>

(* await res.json() resolves with an error: the early return *)
jsonResolvedError ==
    /\ pc = "json"
    /\ \E body \in {ErrorBody, EmptyScriptBody} :
         /\ ~res \/ body.kind = "error"
         /\ status' = SetState(status, ResponseError(body))
    /\ loading' = SetState(loading, FALSE)
    /\ pc' = "idle"
    /\ UNCHANGED <<page, mounted, text, result, audioUrl, prevAudioUrl,
                   res, data, mix, alive, created, generations, playerVars, call>>

(* await res.json() resolves with an accepted body: mixAudio is called *)
jsonResolved ==
    /\ pc = "json"
    /\ res
    /\ \E body \in PageBodies :
         /\ body.kind # "error"
         /\ data' = body
    /\ status' = IF page = "UploadPage" THEN SetState(status, StatusMixing[page]) ELSE status
    /\ pc' = "mix"
    /\ UNCHANGED <<page, mounted, text, loading, result, audioUrl, prevAudioUrl,
                   res, mix, alive, created, generations, playerVars, call>>

(* await mixAudio(...) resolves with the object URL it created *)
mixResolved ==
    /\ pc = "mix"
    /\ ~MixThrows(data)
    /\ LET url == Url(created + 1) IN
         /\ mix' = IF page = "Home"
                    THEN mixAudio(data.linesAudio, data.dialogueLines, data.sfxList,
                                  data.musicList, SceneStartTimesArg(data))
                    ELSE mixAudioUpload(data.linesAudio, data.dialogueLines, data.sfxList,
                                        data.musicList, SceneStartTimesArg(data))
         /\ alive' = alive \cup {url}
         /\ created' = created + 1
         /\ prevAudioUrl' = url
         /\ audioUrl' = SetState(audioUrl, url)
    /\ result' = SetState(result, data)
    /\ status' = SetState(status, StatusDone[page])
    /\ loading' = SetState(loading, FALSE)
    /\ pc' = "idle"
    /\ audio' = SetState(audio, NewAudio(AudioDuration(mix')))
    /\ UNCHANGED <<page, mounted, text, res, data, generations,
                   currentScene, currentTime, totalDuration, isDragging, event,
                   pointer, call>>

(* await mixAudio(...) rejects *)
mixRejected ==
    /\ pc = "mix"
    /\ MixThrows(data)
    /\ Caught
    /\ UNCHANGED <<page, mounted, text, result, audioUrl, prevAudioUrl,
                   res, data, mix, alive, created, generations, playerVars, call>>

(* The component unmounts: the effects' cleanups only remove listeners. *)
unmount ==
    /\ mounted
    /\ mounted' = FALSE
    /\ UNCHANGED <<page, text, loading, status, result, audioUrl, prevAudioUrl,
                   pc, res, data, mix, alive, created, generations, playerVars, call>>

Next ==
    \/ setText
    \/ handleGenerateBlank
    \/ handleGenerate
    \/ fetchRejected
    \/ fetchResolved
    \/ jsonRejected
    \/ jsonResolvedError
    \/ jsonResolved
    \/ mixResolved
    \/ mixRejected
    \/ unmount

Spec == Init /\ [][Next]_vars

(* The page when every promise a run awaits settles: the fetch, the parse of *)
(* the body and the mix each resolve or reject.                             *)
FetchSettles == fetchRejected \/ fetchResolved

JsonSettles == jsonRejected \/ jsonResolvedError \/ jsonResolved

MixSettles == mixResolved \/ mixRejected

SpecSettling ==
    /\ Init
    /\ [][Next]_vars
    /\ WF_vars(FetchSettles)
    /\ WF_vars(JsonSettles)
    /\ WF_vars(MixSettles)

(* mixAudio alone: Home has accepted a script body and awaits the mix. *)
InitMix ==
    /\ page = "Home"
    /\ mounted = TRUE
    /\ text = "script"
    /\ loading = TRUE
    /\ status = StatusMixing["Home"]
    /\ result = NoResult
    /\ audioUrl = NoUrl
    /\ prevAudioUrl = NoUrl
    /\ pc = "mix"
    /\ res = TRUE
    /\ data \in MixBodies
    /\ mix = NoMix
    /\ alive = {}
    /\ created = 0
    /\ generations = 1
    /\ currentScene = 0
    /\ currentTime = 0
    /\ totalDuration = 0
    /\ audio = NoAudio
    /\ isDragging = FALSE
    /\ event = NoEvent
    /\ pointer = "none"
    /\ call = NoCall

NextMix == mixResolved \/ mixRejected

SpecMix == InitMix /\ [][NextMix]_vars

-----------------------------------------------------------------------------
(* The render of mixAudio: clips of several sample rates, channel counts and *)
(* sample values.                                                           *)

(* what decodeAudioData of a 48 kHz context yields *)
DeviceRate == 48000

(* a failed line, a mono line at 44.1 kHz, a stereo line at the device rate *)
RenderLineClips ==
    {BadClip, Clip(44100), SampledClip(66150, DeviceRate, <<<<500, -250>>, <<125>>>>)}

(* effects: undecodable, all zero, peak 0.3, peak exactly 0.6, peak 1.2 on *)
(* the second of two channels                                              *)
RenderSfxClips ==
    {BadClip,
     SampledClip(220500, DeviceRate, <<<<0, 0>>>>),
     SampledClip(220500, DeviceRate, <<<<100, -300, 200>>>>),
     SampledClip(220500, DeviceRate, <<<<-600>>>>),
     SampledClip(220500, DeviceRate, <<<<600, -900>>, <<-1200, 1100>>>>)}

(* music: undecodable, all zero, peak 0.09, peak 1.0 *)
RenderMusicClips ==
    {BadClip,
     SampledClip(264600, DeviceRate, <<<<0>>>>),
     SampledClip(264600, DeviceRate, <<<<90, -45>>>>),
     SampledClip(264600, DeviceRate, <<<<-1000>>, <<1000>>>>)}

RenderSfxItems == [sceneIndex : SceneIndices, startTime : {7350}, audioBase64 : RenderSfxClips]

RenderMusicItems == [sceneIndex : {0}, startTime : {7350}, audioBase64 : RenderMusicClips]

(* one dialogue line of scene 0 per clip *)
RenderBodies ==
    {[kind |-> "script", scenes |-> ScriptScenes,
      dialogueLines |-> [i \in 1..Len(la) |-> [sceneIndex |-> 0]],
      linesAudio |-> la, sfxList |-> sfx, musicList |-> mus,
      hasSceneStartTimes |-> sst # <<>>, sceneStartTimes |-> sst] :
        la \in SeqsUpTo(RenderLineClips, MaxRenderLines),
        sfx \in SeqsUpTo(RenderSfxItems, 2),
        mus \in SeqsUpTo(RenderMusicItems, 1),
        sst \in {<<>>, <<0, 137592>>}}
        \cup {MalformedBody}

InitRender ==
    /\ page = "Home"
    /\ mounted = TRUE
    /\ text = "script"
    /\ loading = TRUE
    /\ status = StatusMixing["Home"]
    /\ result = NoResult
    /\ audioUrl = NoUrl
    /\ prevAudioUrl = NoUrl
    /\ pc = "mix"
    /\ res = TRUE
    /\ data \in RenderBodies
    /\ mix = NoMix
    /\ alive = {}
    /\ created = 0
    /\ generations = 1
    /\ currentScene = 0
    /\ currentTime = 0
    /\ totalDuration = 0
    /\ audio = NoAudio
    /\ isDragging = FALSE
    /\ event = NoEvent
    /\ pointer = "none"
    /\ call = NoCall

SpecRender == InitRender /\ [][NextMix]_vars

(* mixAudio of UploadPage alone, on the bodies of SpecMix and of SpecRender *)
InitMixUpload ==
    /\ page = "UploadPage"
    /\ mounted = TRUE
    /\ text = "script"
    /\ loading = TRUE
    /\ status = StatusMixing["UploadPage"]
    /\ result = NoResult
    /\ audioUrl = NoUrl
    /\ prevAudioUrl = NoUrl
    /\ pc = "mix"
    /\ res = TRUE
    /\ data \in MixBodies \cup RenderBodies
    /\ mix = NoMix
    /\ alive = {}
    /\ created = 0
    /\ generations = 1
    /\ currentScene = 0
    /\ currentTime = 0
    /\ totalDuration = 0
    /\ audio = NoAudio
    /\ isDragging = FALSE
    /\ event = NoEvent
    /\ pointer = "none"
    /\ call = NoCall

SpecMixUpload == InitMixUpload /\ [][NextMix]_vars

-----------------------------------------------------------------------------
(* The player of Home: scene tracking, scrubbing and the space bar *)

Min2(a, b) == IF a <= b THEN a ELSE b

(* the loop with a strict comparison *)
ComputedSceneStrict(times, t) ==
    LET hits == {i \in 0..(Len(times) - 1) : t > times[i + 1]}
    IN IF hits = {} THEN 0 ELSE CHOOSE i \in hits : \A j \in hits : j <= i

(* for (let i = 0; i < times.length; i++) { if (t >= times[i]) scene = i; } *)
RECURSIVE SceneLoop(_, _, _, _)
SceneLoop(times, t, i, scene) ==
    IF i >= Len(times) THEN scene
    ELSE SceneLoop(times, t, i + 1, IF t >= times[i + 1] THEN i ELSE scene)

(* let scene = 0; the loop; scene *)
ComputedScene(times, t) == SceneLoop(times, t, 0, 0)

(* cardRefs.current[scene]: the timeline renders one card per result.scenes *)
HasCard(scene) == result # NoResult /\ scene + 1 \in DOMAIN result.scenes

(* a handler that scrolls on every update *)
ScrollsOnEveryUpdate(prev, scene) == HasCard(scene)

(* if (prev !== scene) cardRefs.current[scene]?.scrollIntoView(...) *)
ScrollsIntoView(prev, scene) == prev # scene /\ HasCard(scene)

(* the section with the timeline and the <audio> element is rendered *)
TimelineRendered == mounted /\ result # NoResult /\ audioUrl # NoUrl

(* the effect attached timeupdate and loadedmetadata:                       *)
(* if (!audio || !result?.sceneStartTimes?.length) return                   *)
Listening ==
    /\ mounted
    /\ audio # NoAudio
    /\ result # NoResult
    /\ Len(resultSceneStartTimes(result)) > 0

(* a fraction that is not clamped *)
ScrubOffsetUnclamped(clientX, rect) == clientX - rect.left

(* Math.max(0, Math.min(1, (clientX - rect.left) / rect.width)), times width *)
ScrubOffset(clientX, rect) == Max2(0, Min2(rect.width, clientX - rect.left))

(* frac * totalDuration, to the tick *)
ScrubTime(clientX, rect) == (ScrubOffset(clientX, rect) * totalDuration) \div rect.width

(* scrubTimeline: the state of the audio element after it *)
scrubTimeline(clientX, rect) ==
    IF audio = NoAudio \/ totalDuration <= 0 THEN audio
    ELSE [audio EXCEPT !.currentTime = ScrubTime(clientX, rect)]

(* a handler that ignores where the key was pressed *)
KeyHandledAnywhere(code, tag) == code = "Space"

(* if (e.code !== "Space") return; if (tag === "TEXTAREA" || tag === "INPUT") return *)
KeyHandled(code, tag) == code = "Space" /\ tag \notin {"TEXTAREA", "INPUT"}

(* a seek to the start of the card before the one clicked *)
SeekTimeOfPreviousCard(times, i) == IF i >= 1 /\ i <= Len(times) THEN times[i] ELSE 0

(* result.sceneStartTimes[i] ?? 0 *)
SeekTime(times, i) == IF i + 1 \in DOMAIN times THEN times[i + 1] ELSE 0

(* Inputs of the player *)

(* playback positions: 0 s, 1.12 s, 3.12 s *)
PlayerTimes == {0, 49392, 137592}

(* where the pointer is: left of, inside (a quarter in) and right of the timeline *)
ClientXs == {0, 60, 300}

TimelineRect == [left |-> 10, width |-> 200]

KeyCodes == {"Space", "Enter"}

TagNames == {"BODY", "TEXTAREA", "INPUT"}

(* results the player shows: two scenes, one 2 s line, a 6 s music bed in   *)
(* scene 1, and any scene start times                                      *)
PlayerBodies ==
    {[kind |-> "script", scenes |-> ScriptScenes,
      dialogueLines |-> <<[sceneIndex |-> 0]>>,
      linesAudio |-> <<Clip(88200)>>,
      sfxList |-> <<>>,
      musicList |-> <<[sceneIndex |-> 1, startTime |-> 7350, audioBase64 |-> Clip(264600)]>>,
      hasSceneStartTimes |-> sst # <<>>, sceneStartTimes |-> sst] :
        sst \in SeqsUpTo(SceneTimeVals, MaxSceneTimes)}

(* the generation state of the page *)
pageVars == <<page, mounted, text, loading, status, result, audioUrl, prevAudioUrl,
              pc, res, data, mix, alive, created, generations>>

(* Home as first rendered, or after one generation that succeeded *)
InitPlayer ==
    /\ page = "Home"
    /\ mounted = TRUE
    /\ text = "script"
    /\ loading = FALSE
    /\ status = ""
    /\ pc = "idle"
    /\ \/ /\ result = NoResult
          /\ data = NoData
          /\ mix = NoMix
          /\ res = FALSE
          /\ audioUrl = NoUrl
          /\ prevAudioUrl = NoUrl
          /\ alive = {}
          /\ created = 0
          /\ generations = 0
          /\ audio = NoAudio
       \/ /\ result \in PlayerBodies
          /\ data = result
          /\ mix = mixAudio(data.linesAudio, data.dialogueLines, data.sfxList,
                            data.musicList, SceneStartTimesArg(data))
          /\ res = TRUE
          /\ audioUrl = Url(1)
          /\ prevAudioUrl = Url(1)
          /\ alive = {Url(1)}
          /\ created = 1
          /\ generations = 1
          /\ audio = NewAudio(AudioDuration(mix))
    /\ currentScene = 0
    /\ currentTime = 0
    /\ totalDuration = 0
    /\ isDragging = FALSE
    /\ event = NoEvent
    /\ pointer = "none"
    /\ call = NoCall

(* the audio element fires loadedmetadata: setTotalDuration(audio.duration || 0) *)
handleLoadedMetadata ==
    /\ Listening
    /\ totalDuration' = audio.duration
    /\ event' = [type |-> "loadedmetadata"]
    /\ UNCHANGED <<pageVars, currentScene, currentTime, audio, isDragging, pointer, call>>

(* playback, or a seek on the native controls, moves the position; no       *)
(* handler of the page listens to it                                       *)
playbackAdvance ==
    /\ mounted
    /\ audio # NoAudio
    /\ \E t \in PlayerTimes :
         /\ t <= audio.duration
         /\ t # audio.currentTime
         /\ audio' = [audio EXCEPT !.currentTime = t]
    /\ event' = [type |-> "seeked"]
    /\ UNCHANGED <<pageVars, currentScene, currentTime, totalDuration, isDragging,
                   pointer, call>>

(* the audio element fires timeupdate; the event notes the card whose click  *)
(* moved the position, when the update follows a click                      *)
handleTimeUpdate ==
    /\ Listening
    /\ LET t == audio.currentTime
           scene == ComputedScene(resultSceneStartTimes(result), t)
       IN /\ currentTime' = t
          /\ currentScene' = scene
          /\ event' = [type |-> "timeupdate", t |-> t, prev |-> currentScene,
                       scene |-> scene,
                       scrolled |-> ScrollsIntoView(currentScene, scene),
                       seek |-> IF event.type = "click" THEN <<event.card>> ELSE <<>>]
    /\ UNCHANGED <<pageVars, totalDuration, audio, isDragging, pointer, call>>

(* window keydown *)
handleKeyDown ==
    /\ mounted
    /\ \E code \in KeyCodes, tag \in TagNames :
         /\ audio' = IF KeyHandled(code, tag) /\ audio # NoAudio
                      THEN [audio EXCEPT !.paused = ~audio.paused]
                      ELSE audio
         /\ event' = [type |-> "keydown", code |-> code, tag |-> tag,
                      defaultPrevented |-> KeyHandled(code, tag),
                      before |-> audio]
    /\ UNCHANGED <<pageVars, currentScene, currentTime, totalDuration, isDragging,
                   pointer, call>>

(* onMouseDown of the timeline *)
handleTimelineMouseDown ==
    /\ TimelineRendered
    /\ \E clientX \in ClientXs :
         /\ isDragging' = TRUE
         /\ audio' = scrubTimeline(clientX, TimelineRect)
         /\ event' = [type |-> "mousedown", clientX |-> clientX, rect |-> TimelineRect,
                      dragging |-> isDragging, before |-> audio]
    /\ pointer' = "down"
    /\ UNCHANGED <<pageVars, currentScene, currentTime, totalDuration, call>>

(* onMouseMove of the timeline *)
handleTimelineMouseMove ==
    /\ TimelineRendered
    /\ \E clientX \in ClientXs :
         /\ audio' = IF isDragging THEN scrubTimeline(clientX, TimelineRect) ELSE audio
         /\ event' = [type |-> "mousemove", clientX |-> clientX, rect |-> TimelineRect,
                      dragging |-> isDragging, before |-> audio]
    /\ UNCHANGED <<pageVars, currentScene, currentTime, totalDuration, isDragging,
                   pointer, call>>

(* onMouseUp and onMouseLeave of the timeline *)
handleTimelineMouseUp ==
    /\ TimelineRendered
    /\ isDragging' = FALSE
    /\ \E type \in {"mouseup", "mouseleave"} :
         /\ event' = [type |-> type, dragging |-> isDragging, before |-> audio]
         /\ pointer' = IF type = "mouseup" THEN "up" ELSE "leave"
    /\ UNCHANGED <<pageVars, currentScene, currentTime, totalDuration, audio, call>>

(* onClick of a timeline card: if (!result?.sceneStartTimes) return;        *)
(* audio.currentTime = sceneStartTimes[i] ?? 0, which the element keeps     *)
(* within its duration                                                     *)
seekToScene ==
    /\ TimelineRendered
    /\ \E i \in 0..(Len(result.scenes) - 1) :
         /\ audio' = IF result.hasSceneStartTimes
                      THEN [audio EXCEPT !.currentTime =
                              Min2(audio.duration,
                                   SeekTime(resultSceneStartTimes(result), i))]
                      ELSE audio
         /\ event' = [type |-> "click", card |-> i]
    /\ UNCHANGED <<pageVars, currentScene, currentTime, totalDuration, isDragging,
                   pointer, call>>

NextPlayer ==
    \/ handleLoadedMetadata
    \/ playbackAdvance
    \/ handleTimeUpdate
    \/ handleKeyDown
    \/ handleTimelineMouseDown
    \/ handleTimelineMouseMove
    \/ handleTimelineMouseUp
    \/ seekToScene

SpecPlayer == InitPlayer /\ [][NextPlayer]_vars

-----------------------------------------------------------------------------
(* audioBufferToWav: the bytes of the file, 1-based where the code is 0-based *)

(* the n low bytes of v, least significant first: DataView.setUintN(.., true) *)
LittleEndian(v, n) == [k \in 1..n |-> (v \div (256 ^ (k - 1))) % 256]

(* view.set...(offset, ...): the bytes overwrite the view from offset on *)
SetBytes(view, offset, bytes) ==
    [k \in DOMAIN view |->
        IF k > offset /\ k <= offset + Len(bytes) THEN bytes[k - offset] ELSE view[k]]

(* str.charCodeAt(i) of the four tags *)
CharCodes ==
    [RIFF |-> <<82, 73, 70, 70>>, WAVE |-> <<87, 65, 86, 69>>,
     fmt |-> <<102, 109, 116, 32>>, data |-> <<100, 97, 116, 97>>]

writeString(view, offset, str) == SetBytes(view, offset, CharCodes[str])

setUint32(view, offset, v) == SetBytes(view, offset, LittleEndian(v, 4))

setUint16(view, offset, v) == SetBytes(view, offset, LittleEndian(v, 2))

(* the integer part of a / b for b > 0, towards zero, as ToInt16 takes it *)
TruncDiv(a, b) == IF a >= 0 THEN a \div b ELSE -((-a) \div b)

(* setInt16 of the number v / FullScale: truncated, then modulo 2^16 *)
setInt16(view, offset, v) ==
    SetBytes(view, offset, LittleEndian(TruncDiv(v, FullScale) % 65536, 2))

(* a sample written without the clamp *)
ClampSampleNot(s) == s

(* Math.max(-1, Math.min(1, s)) *)
ClampSample(s) == Max2(-FullScale, Min2(FullScale, s))

(* s < 0 ? s * 32768 : s * 32767, times FullScale *)
ScaleSample(s) == IF s < 0 THEN s * 32768 ELSE s * 32767

(* the two loops: for f < len, for ch < numCh, setInt16(off, ...); off += 2 *)
RECURSIVE WriteSamples(_, _, _, _, _)
WriteSamples(view, buf, f, ch, off) ==
    IF f >= buf.length THEN view
    ELSE IF ch >= buf.numberOfChannels THEN WriteSamples(view, buf, f + 1, 0, off)
    ELSE WriteSamples(
            setInt16(view, off, ScaleSample(ClampSample(buf.channelData[ch + 1][f + 1]))),
            buf, f, ch + 1, off + 2)

audioBufferToWav(buf) ==
    LET numCh == buf.numberOfChannels
        sr == buf.sampleRate
        len == buf.length
        dataSize == len * numCh * 2
        ab == [k \in 1..(44 + dataSize) |-> 0]
        v1 == writeString(ab, 0, "RIFF")
        v2 == setUint32(v1, 4, 36 + dataSize)
        v3 == writeString(v2, 8, "WAVE")
        v4 == writeString(v3, 12, "fmt")
        v5 == setUint32(v4, 16, 16)
        v6 == setUint16(v5, 20, 1)
        v7 == setUint16(v6, 22, numCh)
        v8 == setUint32(v7, 24, sr)
        v9 == setUint32(v8, 28, sr * numCh * 2)
        v10 == setUint16(v9, 32, numCh * 2)
        v11 == setUint16(v10, 34, 16)
        v12 == writeString(v11, 36, "data")
        v13 == setUint32(v12, 40, dataSize)
    IN WriteSamples(v13, buf, 0, 0, 44)

(* Inputs: rendered buffers of up to MaxFrames frames and one or two channels; *)
(* samples below, at and above full scale, in thousandths                      *)
WavSamples == {-1500, -1, 0, 1000, 1500}

(* the rendered buffers of ch channels, n frames and rate sr *)
WavBuffers(ch, n, sr) ==
    {[numberOfChannels |-> ch, sampleRate |-> sr, length |-> n, channelData |-> cd] :
        cd \in [1..ch -> [1..n -> WavSamples]]}

(* Home as first rendered; audioBufferToWav is about to be called on a buffer *)
InitWav ==
    /\ page = "Home"
    /\ mounted = TRUE
    /\ text = "script"
    /\ loading = FALSE
    /\ status = ""
    /\ result = NoResult
    /\ audioUrl = NoUrl
    /\ prevAudioUrl = NoUrl
    /\ pc = "idle"
    /\ res = FALSE
    /\ data = NoData
    /\ mix = NoMix
    /\ alive = {}
    /\ created = 0
    /\ generations = 0
    /\ currentScene = 0
    /\ currentTime = 0
    /\ totalDuration = 0
    /\ audio = NoAudio
    /\ isDragging = FALSE
    /\ event = NoEvent
    /\ pointer = "none"
    /\ \E ch \in 1..2, n \in 0..MaxFrames, sr \in {TicksPerSecond, DeviceRate} :
         \E buf \in WavBuffers(ch, n, sr) :
            call = [fn |-> "audioBufferToWav", arg |-> buf, done |-> FALSE]

audioBufferToWavReturns ==
    /\ call.fn = "audioBufferToWav"
    /\ ~call.done
    /\ call' = [fn |-> "audioBufferToWav", arg |-> call.arg, done |-> TRUE,
                value |-> audioBufferToWav(call.arg)]
    /\ UNCHANGED <<pageVars, playerVars>>

SpecWav == InitWav /\ [][audioBufferToWavReturns]_vars

-----------------------------------------------------------------------------
(* buildVoiceMap of the generate route (src/unnamed/part_002) *)

(* VOICE_POOL: narrator, five character slots, overflow *)
VOICE_POOL ==
    [narrator |-> [id |-> "JBFqnCBsd6RMkjVDRZzb", name |-> "George"],
     slot0    |-> [id |-> "21m00Tcm4TlvDq8ikWAM", name |-> "Rachel"],
     slot1    |-> [id |-> "ErXwobaYiN019PkySvjV", name |-> "Antoni"],
     slot2    |-> [id |-> "XrExE9yKIg1WjnnlVkGX", name |-> "Matilda"],
     slot3    |-> [id |-> "TxGEqnHWrfWFTfGW9XjX", name |-> "Josh"],
     slot4    |-> [id |-> "VR6AewLTigWG4xSOukaG", name |-> "Arnold"],
     overflow |-> [id |-> "AZnzlk1XvdvUeBnXmlld", name |-> "Domi"]]

(* { voiceId: VOICE_POOL[key].id, voiceName: VOICE_POOL[key].name, ... } *)
VoiceAssignment(key) == [voiceId |-> VOICE_POOL[key].id, voiceName |-> VOICE_POOL[key].name]

(* `slot${slotIndex}` *)
SlotKeys == <<"slot0", "slot1", "slot2", "slot3", "slot4">>

(* a key always taken from the slots, the last slot once they run out *)
SlotKeyNoOverflow(slotIndex) == SlotKeys[Min2(slotIndex, 4) + 1]

(* slotIndex < 5 ? `slot${slotIndex}` : "overflow" *)
SlotKey(slotIndex) == IF slotIndex < 5 THEN SlotKeys[slotIndex + 1] ELSE "overflow"

(* voiceMap is a plain object: a key it does not own is looked up on         *)
(* Object.prototype, where "constructor" (among others) is a function.        *)
ObjectPrototypeKeys == {"constructor"}

(* voiceMap[key] is truthy *)
HasVoice(voiceMap, key) == key \in DOMAIN voiceMap \/ key \in ObjectPrototypeKeys

(* voiceMap[key] = value *)
PutVoice(voiceMap, key, value) ==
    [k \in DOMAIN voiceMap \cup {key} |-> IF k = key THEN value ELSE voiceMap[k]]

(* a segment without speaker has speaker "" *)
Segment(type, speaker) == [type |-> type, speaker |-> speaker]

(* for (const seg of segments) { if (dialogue && speaker && !voiceMap[speaker]) ... } *)
RECURSIVE VoiceLoop(_, _, _)
VoiceLoop(segments, voiceMap, slotIndex) ==
    IF segments = <<>> THEN voiceMap
    ELSE LET seg == Head(segments) IN
         IF seg.type = "dialogue" /\ seg.speaker # "" /\ ~HasVoice(voiceMap, seg.speaker)
         THEN VoiceLoop(Tail(segments),
                        PutVoice(voiceMap, seg.speaker, VoiceAssignment(SlotKey(slotIndex))),
                        IF slotIndex < 5 THEN slotIndex + 1 ELSE slotIndex)
         ELSE VoiceLoop(Tail(segments), voiceMap, slotIndex)

(* a map that starts empty, without the narrator entry *)
buildVoiceMapEmpty(segments) == VoiceLoop(segments, <<>>, 0)

buildVoiceMap(segments) ==
    VoiceLoop(segments, [k \in {"narrator"} |-> VoiceAssignment("narrator")], 0)

(* seg.type === "narration" ? "narrator" : (seg.speaker ?? "unknown") *)
SpeakerKey(seg) ==
    IF seg.type = "narration" THEN "narrator"
    ELSE IF seg.speaker = "" THEN "unknown"
    ELSE seg.speaker

(* what a key the map does not own yields when Object.prototype has it: a    *)
(* function, whose voiceId and voiceName are undefined                       *)
InheritedValue == [voiceId |-> "undefined", voiceName |-> "undefined"]

(* voiceMap[speakerKey] ?? voiceMap["narrator"] *)
Assignment(voiceMap, speakerKey) ==
    IF speakerKey \in DOMAIN voiceMap THEN voiceMap[speakerKey]
    ELSE IF speakerKey \in ObjectPrototypeKeys THEN InheritedValue
    ELSE voiceMap["narrator"]

(* for (const seg of segments) { convert(assignment.voiceId, seg.text); push } *)
(* a buffer is given by the voice that spoke it and the segment it speaks     *)
RECURSIVE SynthesisLoop(_, _, _)
SynthesisLoop(segments, voiceMap, audioBuffers) ==
    IF Len(audioBuffers) >= Len(segments) THEN audioBuffers
    ELSE LET i == Len(audioBuffers) + 1
             assignment == Assignment(voiceMap, SpeakerKey(segments[i]))
         IN SynthesisLoop(segments, voiceMap,
                          Append(audioBuffers,
                                 [voiceId |-> assignment.voiceId, segment |-> i]))

(* Inputs: the characters of a script, named in the order they first speak *)
Characters == <<"Ana", "Ben", "Cal", "Dee", "Eli", "Fay", "Gus">>

(* the characters that speak in a list of segments *)
Speaking(segments) ==
    {c \in 1..Len(Characters) :
        \E i \in DOMAIN segments : segments[i].speaker = Characters[c]}

(* what may follow: narration, a line without speaker, a line of a speaker   *)
(* called narrator or constructor, a line of a character who spoke, the first *)
(* line of the next                                                           *)
NextSegments(segments) ==
    {Segment("narration", ""), Segment("dialogue", ""), Segment("dialogue", "narrator"),
     Segment("dialogue", "constructor")}
    \cup {Segment("dialogue", Characters[c]) :
            c \in {c \in 1..Len(Characters) : c <= Cardinality(Speaking(segments)) + 1}}

(* the route has handled a request with an empty script *)
InitVoices ==
    /\ page = "Home"
    /\ mounted = TRUE
    /\ text = "script"
    /\ loading = TRUE
    /\ status = StatusStart["Home"]
    /\ result = NoResult
    /\ audioUrl = NoUrl
    /\ prevAudioUrl = NoUrl
    /\ pc = "fetch"
    /\ res = FALSE
    /\ data = NoData
    /\ mix = NoMix
    /\ alive = {}
    /\ created = 0
    /\ generations = 1
    /\ currentScene = 0
    /\ currentTime = 0
    /\ totalDuration = 0
    /\ audio = NoAudio
    /\ isDragging = FALSE
    /\ event = NoEvent
    /\ pointer = "none"
    /\ call = [fn |-> "buildVoiceMap", arg |-> <<>>, value |-> buildVoiceMap(<<>>),
               before |-> buildVoiceMap(<<>>), audioBuffers |-> <<>>]

(* the route handles a script that has one segment more than the last one:  *)
(* const voiceMap = buildVoiceMap(segments), then one buffer per segment    *)
buildVoiceMapCall ==
    /\ call.fn = "buildVoiceMap"
    /\ Len(call.arg) < MaxSegments
    /\ \E seg \in NextSegments(call.arg) :
         call' = [fn |-> "buildVoiceMap", arg |-> Append(call.arg, seg),
                  value |-> buildVoiceMap(Append(call.arg, seg)),
                  before |-> call.value,
                  audioBuffers |->
                      SynthesisLoop(Append(call.arg, seg),
                                    buildVoiceMap(Append(call.arg, seg)), <<>>)]
    /\ UNCHANGED <<pageVars, playerVars>>

SpecVoices == InitVoices /\ [][buildVoiceMapCall]_vars

-----------------------------------------------------------------------------
(* Properties of mixAudio, checked under SpecMix *)

Mixed == mix.kind = "mix"

(* the duration line i contributes: its decoded duration, one sample for a  *)
(* clip that failed to decode, nothing for a line without a linesAudio entry *)
DecodedDuration(i) ==
    IF i > Len(mix.linesAudio) THEN 0
    ELSE IF mix.linesAudio[i].decodes THEN mix.linesAudio[i].buffer.duration
    ELSE 1

SameScene(i, j) == mix.dialogueLines[i].sceneIndex = mix.dialogueLines[j].sceneIndex

(* durations 1.0 s, 1.5 s in scene 0 and 2.0 s in scene 1 *)
ThreeLineScenario ==
    /\ Mixed
    /\ mix.linesAudio = <<Clip(44100), Clip(66150), Clip(88200)>>
    /\ mix.dialogueLines = <<[sceneIndex |-> 0], [sceneIndex |-> 0], [sceneIndex |-> 1]>>

(* C1: the first dialogue line starts at 0, and each next line starts at the  *)
(* end of the line before it (start plus decoded duration) plus 0.12 s (5292  *)
(* ticks) within a scene and 0.5 s (22050 ticks) across a scene boundary;     *)
(* durations 1.0, 1.5 (scene 0), 2.0 (scene 1) give starts 0, 1.12, 3.12 s.   *)
C1_DialogueStartTimes ==
    Mixed =>
        /\ Len(mix.startTimes) = Len(mix.dialogueLines)
        /\ Len(mix.startTimes) >= 1 => mix.startTimes[1] = 0
        /\ \A i \in 1..(Len(mix.startTimes) - 1) :
              mix.startTimes[i + 1] =
                  mix.startTimes[i] + DecodedDuration(i)
                      + (IF SameScene(i, i + 1) THEN 5292 ELSE 22050)
        /\ ThreeLineScenario => mix.startTimes = <<0, 49392, 137592>>

C1_Witness == ThreeLineScenario /\ mix.startTimes = <<0, 49392, 137592>>

(* C3: no two scheduled dialogue clips overlap: each starts at or after the   *)
(* end of every dialogue clip scheduled before it, and the recorded start     *)
(* times are non-decreasing in line order.                                    *)
C3_NoDialogueOverlap ==
    Mixed =>
        /\ \A i, j \in DOMAIN mix.dialogueScheduled :
              i < j =>
                  mix.dialogueScheduled[j].startTime >=
                      mix.dialogueScheduled[i].startTime
                          + mix.dialogueScheduled[i].buffer.duration
        /\ \A i \in 1..(Len(mix.startTimes) - 1) :
              mix.startTimes[i] <= mix.startTimes[i + 1]

ClipEnds(scheduled) ==
    {scheduled[i].startTime + scheduled[i].buffer.duration : i \in DOMAIN scheduled}

SetMax(S) == IF S = {} THEN 0 ELSE CHOOSE m \in S : \A x \in S : x <= m

(* C4: the total duration is the maximum of the dialogue cursor, the latest   *)
(* effect end and the latest music end, and no scheduled clip (dialogue,      *)
(* effect, music) extends past the end of the rendered buffer, whose length   *)
(* in frames is the total duration rounded up and at least one frame.         *)
C4_TotalDurationCoversClips ==
    Mixed =>
        /\ mix.totalDuration =
              SetMax({mix.cursor} \cup ClipEnds(mix.sfxScheduled)
                          \cup ClipEnds(mix.musicScheduled))
        /\ \A e \in ClipEnds(mix.dialogueScheduled) \cup ClipEnds(mix.sfxScheduled)
                        \cup ClipEnds(mix.musicScheduled) :
              (e \div 44100) * mix.sampleRate
                  + ((e % 44100) * mix.sampleRate + 44099) \div 44100 <= mix.length

(* the cursor after line i: the start of the next line less its gap, or the  *)
(* final cursor                                                              *)
CursorAfter(i) ==
    IF i < Len(mix.startTimes)
    THEN mix.startTimes[i + 1] - (IF SameScene(i, i + 1) THEN 5292 ELSE 22050)
    ELSE mix.cursor

(* C5: a dialogue clip that fails to decode is replaced at its index by a     *)
(* one-sample silent buffer, so there is one line buffer per linesAudio entry *)
(* in the same order, one start time per dialogue line, and a failed line     *)
(* advances the cursor by one sample (1/44100 s).                             *)
C5_SilentPlaceholder ==
    Mixed =>
        /\ Len(mix.lineBuffers) = Len(mix.linesAudio)
        /\ \A i \in DOMAIN mix.linesAudio :
              mix.lineBuffers[i] =
                  IF mix.linesAudio[i].decodes
                  THEN mix.linesAudio[i].buffer
                  ELSE [duration |-> 1, sampleRate |-> 44100, numberOfChannels |-> 1,
                        channelData |-> <<<<0>>>>]
        /\ Len(mix.startTimes) = Len(mix.dialogueLines)
        /\ \A i \in DOMAIN mix.startTimes :
              (i <= Len(mix.linesAudio) /\ ~mix.linesAudio[i].decodes)
                  => CursorAfter(i) - mix.startTimes[i] = 1

C5_Witness ==
    /\ Mixed
    /\ Len(mix.linesAudio) = 3
    /\ Len(mix.dialogueLines) = 3
    /\ mix.linesAudio[1].decodes /\ ~mix.linesAudio[2].decodes /\ mix.linesAudio[3].decodes
    /\ Len(mix.startTimes) = 3
    /\ mix.startTimes[3] - mix.startTimes[2] \in {1 + 5292, 1 + 22050}

Decodable(list) == SelectSeq(list, LAMBDA c : c.audioBase64.decodes)

(* where the claim places the k-th decodable clip of a list *)
SceneAnchored(list, scheduled) ==
    /\ Len(scheduled) = Len(Decodable(list))
    /\ \A k \in DOMAIN scheduled :
          LET c == Decodable(list)[k] IN
              scheduled[k].startTime =
                  IF c.sceneIndex < Len(mix.sceneStartTimes)
                  THEN mix.sceneStartTimes[c.sceneIndex + 1]
                  ELSE c.startTime

(* C7: every decoded effect or music clip is scheduled at                     *)
(* sceneStartTimes[clip.sceneIndex] whenever that entry exists, 0 included,   *)
(* and at the clip's own startTime only when the entry is absent.             *)
C7_SceneStartWins ==
    Mixed =>
        /\ SceneAnchored(mix.sfxList, mix.sfxScheduled)
        /\ SceneAnchored(mix.musicList, mix.musicScheduled)

C7_Witness ==
    /\ Mixed
    /\ mix.sceneStartTimes = <<0>>
    /\ Len(mix.sfxScheduled) = 1
    /\ mix.sfxList[1].sceneIndex = 0
    /\ mix.sfxList[1].startTime # 0
    /\ mix.sfxScheduled[1].startTime = 0
    /\ Len(mix.musicScheduled) = 1
    /\ mix.musicList[1].sceneIndex = 1
    /\ mix.musicScheduled[1].startTime = mix.musicList[1].startTime

(* the run has ended on an accepted script body *)
RunEndedOnScript == pc = "idle" /\ data # NoData /\ data.kind = "script"

SomeClipFails(list) == \E i \in DOMAIN list : ~list[i].audioBase64.decodes

(* C6: whichever dialogue, effect and music clips fail to decode, mixAudio    *)
(* completes and returns a playable URL; a failed effect or music clip is     *)
(* neither scheduled nor counted in the total duration; and the run ends as a *)
(* success: no error status, the result and the URL are set.                  *)
C6_DecodeFailuresSwallowed ==
    RunEndedOnScript =>
        /\ Mixed
        /\ audioUrl # NoUrl /\ audioUrl \in alive
        /\ result = data
        /\ status = "" /\ status \notin ErrorStatuses
        /\ \A k \in DOMAIN mix.sfxScheduled :
              mix.sfxScheduled[k].buffer = Decodable(data.sfxList)[k].audioBase64.buffer
        /\ Len(mix.sfxScheduled) = Len(Decodable(data.sfxList))
        /\ \A k \in DOMAIN mix.musicScheduled :
              mix.musicScheduled[k].buffer = Decodable(data.musicList)[k].audioBase64.buffer
        /\ Len(mix.musicScheduled) = Len(Decodable(data.musicList))
        /\ (Len(Decodable(data.sfxList)) = 0 /\ Len(Decodable(data.musicList)) = 0)
              => mix.totalDuration = mix.cursor

C6_Witness ==
    /\ RunEndedOnScript
    /\ \E i \in DOMAIN data.linesAudio : ~data.linesAudio[i].decodes
    /\ SomeClipFails(data.sfxList)
    /\ SomeClipFails(data.musicList)
    /\ mix.sfxScheduled = <<>> /\ mix.musicScheduled = <<>>
    /\ audioUrl \in alive
    /\ status = ""

(* the dialogue lines of scene s, by index *)
LinesOfScene(s) == {i \in DOMAIN mix.dialogueLines : mix.dialogueLines[i].sceneIndex = s}

FirstLineOfScene(s) == CHOOSE i \in LinesOfScene(s) : \A j \in LinesOfScene(s) : i <= j

NonDecreasing(s) == \A i \in 1..(Len(s) - 1) : s[i] <= s[i + 1]

-----------------------------------------------------------------------------
(* Properties of the page, checked under Spec *)

(* C2: at most one object URL created by mixAudio is alive at any moment, and *)
(* it is the one prevAudioUrl holds: the previous URL is revoked before the   *)
(* next one is created and stored.                                            *)
C2_AtMostOneUrlAlive ==
    /\ Cardinality(alive) <= 1
    /\ alive \subseteq {prevAudioUrl}

C2_Witness ==
    /\ created = 2
    /\ alive = {Url(2)}
    /\ prevAudioUrl = Url(2)

(* C10: once the page has unmounted no object URL created by mixAudio is      *)
(* alive, also when the mix finishes after the unmount.                       *)
C10_UnmountRevokes == ~mounted => alive = {}

-----------------------------------------------------------------------------
(* Properties of the render, checked under SpecRender *)

(* the largest absolute sample of a buffer over all its channels *)
MaxAbsSample(buffer) ==
    SetMax(UNION {{Abs(buffer.channelData[c][k]) : k \in DOMAIN buffer.channelData[c]} :
                    c \in DOMAIN buffer.channelData})

(* C11: every decoded effect whose largest absolute sample is p > 0 goes       *)
(* through the gain 0.6 / p, so that its own peak after the gain is 0.6,       *)
(* whether p is below or above 0.6.                                            *)
C11_SfxPeakNormalized ==
    Mixed =>
        /\ Len(mix.sfxScheduled) = Len(Decodable(mix.sfxList))
        /\ \A k \in DOMAIN mix.sfxScheduled :
              LET p == MaxAbsSample(Decodable(mix.sfxList)[k].audioBase64.buffer)
                  g == mix.sfxScheduled[k].gain
              IN p > 0 => /\ g.den # 0
                          /\ g.num * p = TARGET_PEAK * g.den

C11_Witness ==
    /\ Mixed
    /\ Len(mix.sfxScheduled) = 2
    /\ MaxAbsSample(mix.sfxScheduled[1].buffer) = 300
    /\ mix.sfxScheduled[1].gain = Fraction(600, 300)
    /\ MaxAbsSample(mix.sfxScheduled[2].buffer) = 1200
    /\ mix.sfxScheduled[2].gain = Fraction(600, 1200)

(* C12: an effect whose samples are all zero goes through the gain 0.6 itself, *)
(* and nothing is divided by its peak.                                         *)
C12_SilentSfxGetsTargetGain ==
    Mixed =>
        \A k \in DOMAIN mix.sfxScheduled :
            MaxAbsSample(mix.sfxScheduled[k].buffer) = 0 =>
                mix.sfxScheduled[k].gain = Fraction(TARGET_PEAK, FullScale)

C12_Witness ==
    /\ Mixed
    /\ Len(mix.sfxScheduled) = 1
    /\ mix.sfxScheduled[1].buffer.channelData = <<<<0, 0>>>>
    /\ mix.sfxScheduled[1].gain = Fraction(600, 1000)

(* C13: every decoded music clip is scheduled, through a gain of exactly 0.18, *)
(* whatever its samples, its scene and the gains of the effects.               *)
C13_MusicGainFixed ==
    Mixed =>
        /\ Len(mix.musicScheduled) = Len(Decodable(mix.musicList))
        /\ \A k \in DOMAIN mix.musicScheduled :
              /\ mix.musicScheduled[k].buffer = Decodable(mix.musicList)[k].audioBase64.buffer
              /\ mix.musicScheduled[k].gain = Fraction(MUSIC_GAIN, FullScale)

C13_Witness ==
    /\ Mixed
    /\ Len(mix.musicScheduled) = 1
    /\ MaxAbsSample(mix.musicScheduled[1].buffer) = 1000
    /\ mix.musicScheduled[1].gain = Fraction(180, 1000)
    /\ Len(mix.sfxScheduled) = 1
    /\ mix.sfxScheduled[1].gain = Fraction(600, 1200)

(* the buffer the first linesAudio entry leaves in the line-buffer list *)
FirstLineBuffer ==
    IF mix.linesAudio[1].decodes THEN mix.linesAudio[1].buffer ELSE SilentBuffer

(* C18: the render context has the sample rate and the channel count of the    *)
(* first line buffer, 44100 Hz and 1 channel when there is none, and its       *)
(* length is max(1, ceil(totalDuration * sampleRate)) frames, never 0.         *)
C18_RenderContext ==
    Mixed =>
        /\ mix.linesAudio = <<>> => mix.sampleRate = 44100 /\ mix.numChannels = 1
        /\ mix.linesAudio # <<>> =>
              /\ mix.sampleRate = FirstLineBuffer.sampleRate
              /\ mix.numChannels = FirstLineBuffer.numberOfChannels
        /\ mix.length >= 1
        /\ mix.totalDuration = 0 => mix.length = 1
        /\ mix.totalDuration > 0 =>
              LET q == mix.totalDuration \div 44100
                  r == mix.totalDuration % 44100
                  frames == mix.length - q * mix.sampleRate
              IN /\ frames * 44100 >= r * mix.sampleRate
                 /\ (frames - 1) * 44100 < r * mix.sampleRate

C18_Witness ==
    /\ Mixed
    /\ Len(mix.linesAudio) = 2
    /\ mix.linesAudio[1].buffer.sampleRate = 48000
    /\ mix.linesAudio[1].buffer.numberOfChannels = 2
    /\ mix.linesAudio[2] = Clip(44100)
    /\ mix.sampleRate = 48000
    /\ mix.numChannels = 2
    /\ mix.sfxList = <<>> /\ mix.musicList = <<>>
    /\ mix.totalDuration = 66150 + 5292 + 44100
    /\ mix.length = 125760

-----------------------------------------------------------------------------
(* Properties of the player, checked under SpecPlayer *)

(* the scenes whose start time is at or before t, by index *)
ScenesStartedBy(t) ==
    {i \in 0..(Len(resultSceneStartTimes(result)) - 1) :
        resultSceneStartTimes(result)[i + 1] <= t}

(* C14: after a time update at t the current scene is the greatest index i     *)
(* with sceneStartTimes[i] <= t, and scene 0 when no start time is <= t.       *)
C14_CurrentSceneIsLatestStarted ==
    event.type = "timeupdate" =>
        /\ event.t = audio.currentTime
        /\ currentTime = event.t
        /\ currentScene = IF ScenesStartedBy(event.t) = {} THEN 0
                          ELSE SetMax(ScenesStartedBy(event.t))

C14_Witness ==
    /\ event.type = "timeupdate"
    /\ resultSceneStartTimes(result) = <<137592, 0, 137592>>
    /\ event.t = 49392
    /\ event.prev = 2
    /\ currentScene = 1

PointerOffset == event.clientX - event.rect.left

(* C16: a scrub sets the playback time to frac * totalDuration, frac being the *)
(* pointer offset over the timeline width clamped to [0, 1], hence a time in   *)
(* [0, totalDuration]; it changes nothing when totalDuration <= 0 or there is  *)
(* no audio element; and a mouse move scrubs only after a mouse-down that no   *)
(* mouse-up or mouse-leave has followed.                                       *)
C16_Scrub ==
    /\ event.type \in {"mousedown", "mousemove"} =>
          IF (event.type = "mousedown" \/ event.dragging)
                /\ totalDuration > 0 /\ event.before # NoAudio
          THEN /\ audio.currentTime >= 0
               /\ audio.currentTime <= totalDuration
               /\ PointerOffset <= 0 => audio.currentTime = 0
               /\ PointerOffset >= event.rect.width => audio.currentTime = totalDuration
               /\ (PointerOffset > 0 /\ PointerOffset < event.rect.width) =>
                     /\ audio.currentTime * event.rect.width
                           <= PointerOffset * totalDuration
                     /\ PointerOffset * totalDuration
                           < (audio.currentTime + 1) * event.rect.width
               /\ audio = [event.before EXCEPT !.currentTime = audio.currentTime]
          ELSE audio = event.before
    /\ (event.type = "mousemove" /\ audio # event.before) => pointer = "down"
    /\ isDragging <=> pointer = "down"

C16_Witness ==
    /\ event.type = "mousemove"
    /\ event.dragging
    /\ pointer = "down"
    /\ event.clientX = 60
    /\ totalDuration = 402192
    /\ event.before.currentTime = 0
    /\ audio.currentTime = 100548

(* C17: a Space key press toggles playback and prevents the default action,    *)
(* unless the target is a TEXTAREA or an INPUT, where playback stays as it is  *)
(* and the default action is not prevented; no other key changes playback.     *)
C17_SpaceTogglesPlayback ==
    event.type = "keydown" =>
        IF event.code = "Space" /\ event.tag \notin {"TEXTAREA", "INPUT"}
        THEN /\ event.defaultPrevented
             /\ event.before # NoAudio =>
                   audio = [event.before EXCEPT !.paused = ~event.before.paused]
             /\ event.before = NoAudio => audio = NoAudio
        ELSE /\ ~event.defaultPrevented
             /\ audio = event.before

C17_Witness ==
    /\ event.type = "keydown"
    /\ event.code = "Space"
    /\ event.tag = "BODY"
    /\ event.defaultPrevented
    /\ event.before # NoAudio
    /\ ~event.before.paused
    /\ audio.paused

-----------------------------------------------------------------------------
(* Properties of audioBufferToWav, checked under SpecWav *)

(* the fields of a file, read back at a 0-based offset *)
U16At(w, off) == w[off + 1] + 256 * w[off + 2]

U32At(w, off) == U16At(w, off) + 65536 * U16At(w, off + 2)

I16At(w, off) == IF U16At(w, off) >= 32768 THEN U16At(w, off) - 65536 ELSE U16At(w, off)

(* the 16-bit value of a sample in thousandths that lies within full scale *)
Pcm16(s) == IF s < 0 THEN -((-s * 32768) \div 1000) ELSE (s * 32767) \div 1000

(* C19: for a buffer of len frames, numCh channels and rate sr the file has    *)
(* 44 + len*numCh*2 bytes; its header says RIFF, size 36 + data size, WAVE,    *)
(* fmt, 16, format 1, numCh channels, rate sr, byte rate sr*numCh*2, block     *)
(* align numCh*2, 16 bits, data, data size len*numCh*2; the samples follow     *)
(* frame by frame with the channels interleaved, each clamped to [-1, 1] and   *)
(* stored as a 16-bit value in [-32768, 32767].                                *)
C19_WavFile ==
    (call.fn = "audioBufferToWav" /\ call.done) =>
        LET buf == call.arg
            w == call.value
            numCh == buf.numberOfChannels
            dataSize == buf.length * numCh * 2
        IN /\ Len(w) = 44 + dataSize
           /\ \A k \in DOMAIN w : w[k] \in 0..255
           /\ SubSeq(w, 1, 4) = <<82, 73, 70, 70>>
           /\ U32At(w, 4) = 36 + dataSize
           /\ SubSeq(w, 9, 12) = <<87, 65, 86, 69>>
           /\ SubSeq(w, 13, 16) = <<102, 109, 116, 32>>
           /\ U32At(w, 16) = 16
           /\ U16At(w, 20) = 1
           /\ U16At(w, 22) = numCh
           /\ U32At(w, 24) = buf.sampleRate
           /\ U32At(w, 28) = buf.sampleRate * numCh * 2
           /\ U16At(w, 32) = numCh * 2
           /\ U16At(w, 34) = 16
           /\ SubSeq(w, 37, 40) = <<100, 97, 116, 97>>
           /\ U32At(w, 40) = dataSize
           /\ \A f \in 0..(buf.length - 1), ch \in 0..(numCh - 1) :
                 LET s == buf.channelData[ch + 1][f + 1]
                     stored == I16At(w, 44 + (f * numCh + ch) * 2)
                 IN /\ stored \in -32768..32767
                    /\ s <= -1000 => stored = -32768
                    /\ s >= 1000 => stored = 32767
                    /\ (s > -1000 /\ s < 1000) => stored = Pcm16(s)

C19_Witness ==
    /\ call.fn = "audioBufferToWav"
    /\ call.done
    /\ call.arg.sampleRate = 48000
    /\ call.arg.channelData = <<<<1500, -1>>, <<-1500, 0>>>>
    /\ Len(call.value) = 52
    /\ SubSeq(call.value, 45, 52) = <<255, 127, 0, 128, 224, 255, 0, 0>>

-----------------------------------------------------------------------------
(* Properties of buildVoiceMap, checked under SpecVoices *)

(* the distinct speakers of the dialogue segments, in first-seen order *)
RECURSIVE FirstSeen(_, _)
FirstSeen(segments, seen) ==
    IF segments = <<>> THEN seen
    ELSE LET seg == Head(segments) IN
         IF seg.type = "dialogue" /\ seg.speaker # ""
               /\ ~\E k \in DOMAIN seen : seen[k] = seg.speaker
         THEN FirstSeen(Tail(segments), Append(seen, seg.speaker))
         ELSE FirstSeen(Tail(segments), seen)

(* C20: the k-th distinct dialogue speaker in first-seen order gets character  *)
(* slot k-1 for k = 1..5 and the overflow voice from the 6th on; an assignment *)
(* never changes when the script goes on; the first five speakers get          *)
(* pairwise distinct voices.                                                   *)
C20_VoicesInFirstSeenOrder ==
    call.fn = "buildVoiceMap" =>
        LET speakers == FirstSeen(call.arg, <<>>)
            voiceMap == call.value
        IN /\ \A k \in DOMAIN speakers :
                 /\ speakers[k] \in DOMAIN voiceMap
                 /\ voiceMap[speakers[k]] =
                       IF k <= 5 THEN VoiceAssignment(SlotKeys[k])
                       ELSE VoiceAssignment("overflow")
           /\ \A key \in DOMAIN call.before :
                 key \in DOMAIN voiceMap /\ voiceMap[key] = call.before[key]
           /\ \A j, k \in DOMAIN speakers :
                 (j < k /\ k <= 5) =>
                     voiceMap[speakers[j]].voiceId # voiceMap[speakers[k]].voiceId

(* the dialogue speakers of a script *)
SpeakersOf(segments) ==
    {segments[i].speaker :
        i \in {i \in DOMAIN segments :
                 segments[i].type = "dialogue" /\ segments[i].speaker # ""}}

(* C21: for every segment list, the empty one and one without narration        *)
(* included, the voice map has the key narrator with the narrator pool voice,  *)
(* exactly one entry of the map carries the narrator voice identity, and the   *)
(* speakers of the script are assigned at most 6 distinct voice identities     *)
(* other than the overflow voice.                                              *)
C21_OneNarratorVoice ==
    call.fn = "buildVoiceMap" =>
        LET voiceMap == call.value
            assigned == {voiceMap[sp].voiceId : sp \in SpeakersOf(call.arg) \cap DOMAIN voiceMap}
        IN /\ "narrator" \in DOMAIN voiceMap
           /\ voiceMap["narrator"] =
                 [voiceId |-> "JBFqnCBsd6RMkjVDRZzb", voiceName |-> "George"]
           /\ Cardinality({k \in DOMAIN voiceMap :
                               voiceMap[k].voiceId = "JBFqnCBsd6RMkjVDRZzb"}) = 1
           /\ Cardinality(assigned \ {"AZnzlk1XvdvUeBnXmlld"}) <= 6

(* six characters and no narration: the narrator voice, the five slots and the *)
(* overflow voice are in the map                                               *)
C21_Witness ==
    /\ call.fn = "buildVoiceMap"
    /\ Len(call.arg) = 6
    /\ \A i \in DOMAIN call.arg : call.arg[i].type = "dialogue"
    /\ SpeakersOf(call.arg) = {"Ana", "Ben", "Cal", "Dee", "Eli", "Fay"}
    /\ DOMAIN call.value = SpeakersOf(call.arg) \cup {"narrator"}
    /\ call.value["Fay"].voiceId = "AZnzlk1XvdvUeBnXmlld"
    /\ Cardinality({call.value[k].voiceId : k \in DOMAIN call.value}) = 7

-----------------------------------------------------------------------------
(* Properties of the generation handler, checked under Spec *)

(* a handleGenerate run is between its first statement and its end *)
InFlight == pc # "idle"

(* C22: at most one generation is in flight: a handleGenerate run starts only  *)
(* when none is in flight and loading is false, loading is true for as long as *)
(* the run is in flight, and whenever prevAudioUrl stops holding a URL that    *)
(* URL has been revoked.                                                       *)
C22_OneGenerationInFlight ==
    [][/\ generations' # generations =>
              (~InFlight /\ ~loading /\ InFlight' /\ loading')
       /\ InFlight => loading
       /\ InFlight' => loading'
       /\ (prevAudioUrl # NoUrl /\ prevAudioUrl' # prevAudioUrl) =>
              prevAudioUrl \notin alive']_vars

(* the second run awaits its mix; the URL of the first run was revoked *)
C22_Witness ==
    /\ generations = 2
    /\ pc = "mix"
    /\ loading
    /\ created = 1
    /\ alive = {}
    /\ prevAudioUrl = NoUrl

(* C23: whenever no generation is in flight, result is non-null exactly when   *)
(* audioUrl is non-null, and prevAudioUrl.current equals audioUrl: both null,  *)
(* or both the URL of the last successful mix.                                 *)
C23_ResultAndAudioTogether ==
    ~InFlight =>
        /\ result # NoResult <=> audioUrl # NoUrl
        /\ prevAudioUrl = audioUrl
        /\ audioUrl # NoUrl => audioUrl = Url(created)

(* a step that ends a run in a failure: a rejected fetch, a rejected json(),   *)
(* a response that is not OK or carries an error, or a mixAudio that throws    *)
FailureStep ==
    /\ InFlight
    /\ ~InFlight'
    /\ pc = "mix" => data.kind = "malformed"

(* C24 as claimed: after a generation has failed result is null, audioUrl is   *)
(* null, no object URL created by the page is alive, and status starts with    *)
(* "Error:".                                                                   *)
C24_FailureLeavesErrorStatus ==
    [][FailureStep =>
          /\ result' = NoResult
          /\ audioUrl' = NoUrl
          /\ alive' = {}
          /\ status' \in ErrorStatuses]_vars

(* C24 amended: after a generation has failed result is null, audioUrl is      *)
(* null, prevAudioUrl.current is null and no object URL created by the page is *)
(* alive; status starts with "Error:" when the page is still mounted, and is   *)
(* what it was when the page has unmounted in the meantime.                    *)
C24_FailureLeavesNoAudio ==
    [][FailureStep =>
          /\ result' = NoResult
          /\ audioUrl' = NoUrl
          /\ prevAudioUrl' = NoUrl
          /\ alive' = {}
          /\ mounted => status' \in ErrorStatuses
          /\ ~mounted => status' = status /\ status' \notin ErrorStatuses]_vars

(* the second run failed in mixAudio after the first had succeeded: the URL of *)
(* the first run is revoked and the page shows the error                       *)
C24_Witness ==
    /\ ~InFlight
    /\ mounted
    /\ generations = 2
    /\ created = 1
    /\ data = MalformedBody
    /\ alive = {}
    /\ result = NoResult
    /\ audioUrl = NoUrl
    /\ status = "Error: <exception>"

(* C25 as claimed: every handleGenerate run eventually ends with loading =     *)
(* false, provided the awaited fetch and mix settle.                           *)
C25_RunEndsNotLoading == InFlight ~> (~InFlight /\ ~loading)

(* C25 amended: every handleGenerate run eventually ends, provided the awaited *)
(* fetch and mix settle; loading is true from its start to its end, and false  *)
(* at its end when the page is still mounted.                                  *)
C25_RunEnds ==
    /\ InFlight ~> (~InFlight /\ (mounted => ~loading))
    /\ [](InFlight => loading)
    /\ [][(InFlight /\ ~InFlight' /\ mounted) => ~loading']_vars

(* a run has ended on the early return for a response that is not OK *)
C25_Witness ==
    /\ ~InFlight
    /\ mounted
    /\ generations = 2
    /\ ~res
    /\ status = "Error: Unknown error"
    /\ ~loading

(* a step of the mounted page that keeps a blank text: while the text is blank *)
(* no run is in flight, so the step is a click on Generate                     *)
BlankGenerateStep == text = "blank" /\ text' = "blank" /\ mounted'

(* C26: handleGenerate with blank text leaves result, audioUrl,                *)
(* prevAudioUrl.current and loading as they are, revokes no object URL and     *)
(* sends no request; Home changes nothing at all, UploadPage only status.      *)
C26_BlankTextChangesNothing ==
    [][BlankGenerateStep =>
          /\ ~InFlight /\ ~InFlight'
          /\ UNCHANGED <<result, audioUrl, prevAudioUrl, loading, alive, created,
                          generations, res, data, mix>>
          /\ page = "Home" => status' = status
          /\ page = "UploadPage" => status' = "Please paste script text to continue."
          /\ UNCHANGED <<page, mounted, text, playerVars, call>>]_vars

(* UploadPage asks for text and still holds the result and the live URL of the *)
(* generation before                                                           *)
C26_Witness ==
    /\ page = "UploadPage"
    /\ text = "blank"
    /\ status = "Please paste script text to continue."
    /\ result # NoResult
    /\ audioUrl = Url(1)
    /\ prevAudioUrl = Url(1)
    /\ alive = {Url(1)}
    /\ ~loading
    /\ generations = 1

-----------------------------------------------------------------------------
(* Properties of the dialogue schedule, checked under SpecMix *)

(* C27: the decoded dialogue buffer i is scheduled at the start time recorded  *)
(* for dialogue line i, and every scheduled dialogue buffer has a recorded     *)
(* start time: the buffers scheduled are never more than the start times.      *)
C27_ScheduledAtRecordedStart ==
    Mixed =>
        /\ Len(mix.dialogueScheduled) <= Len(mix.startTimes)
        /\ \A i \in DOMAIN mix.dialogueScheduled :
              /\ i \in DOMAIN mix.startTimes
              /\ mix.dialogueScheduled[i].buffer = mix.lineBuffers[i]
              /\ mix.dialogueScheduled[i].startTime = mix.startTimes[i]

-----------------------------------------------------------------------------
(* Properties of seeking, checked under SpecPlayer *)

(* the time update follows a click on a scene card *)
UpdateAfterSeek == event.type = "timeupdate" /\ event.seek # <<>>

(* C28 as claimed: for every scene index i, seekToScene(i) followed by the     *)
(* resulting time update sets currentScene to i.                               *)
C28_SeekSetsCurrentScene ==
    UpdateAfterSeek => currentScene = event.seek[1]

(* C28 amended: seekToScene(i) followed by the resulting time update sets      *)
(* currentTime to sceneStartTimes[i] (0 without such an entry, and at most the *)
(* duration) and currentScene to the greatest j with sceneStartTimes[j] at or  *)
(* before that time; this is i when scene i has a start time within the        *)
(* duration and every later entry is greater than it.                          *)
C28_SeekSetsLatestStarted ==
    UpdateAfterSeek =>
        LET times == resultSceneStartTimes(result)
            i == event.seek[1]
            target == IF i < Len(times) THEN times[i + 1] ELSE 0
            t == IF target <= audio.duration THEN target ELSE audio.duration
        IN /\ event.t = t
           /\ currentTime = t
           /\ currentScene = IF ScenesStartedBy(t) = {} THEN 0
                              ELSE SetMax(ScenesStartedBy(t))
           /\ (/\ i < Len(times)
               /\ times[i + 1] <= audio.duration
               /\ \A j \in (i + 1)..(Len(times) - 1) : times[j + 1] > times[i + 1])
                 => currentScene = i

(* scene 1 starts at 3.12 s after scene 0 at 0: the click on card 1 makes it   *)
(* the current scene                                                           *)
C28_Witness ==
    /\ UpdateAfterSeek
    /\ resultSceneStartTimes(result) = <<0, 137592>>
    /\ event.seek = <<1>>
    /\ event.prev = 0
    /\ currentTime = 137592
    /\ currentScene = 1

-----------------------------------------------------------------------------
(* Properties of the two mixAudio implementations, checked under SpecMixUpload *)

(* what mixAudio of Home computes on the body UploadPage has mixed *)
HomeMix ==
    mixAudio(data.linesAudio, data.dialogueLines, data.sfxList, data.musicList,
             IF data.hasSceneStartTimes THEN data.sceneStartTimes ELSE <<>>)

(* C29: on every input and every pattern of decode failures mixAudio of        *)
(* UploadPage and mixAudio of Home record the same dialogue start times,       *)
(* schedule the same clips at the same start times with the same gains, and    *)
(* size the render with the same total duration, sample rate and channel       *)
(* count; on a body neither can iterate both throw.                            *)
C29_SameMix ==
    /\ (page = "UploadPage" /\ Mixed) =>
          /\ mix.startTimes = HomeMix.startTimes
          /\ mix.lineBuffers = HomeMix.lineBuffers
          /\ mix.dialogueScheduled = HomeMix.dialogueScheduled
          /\ mix.sfxScheduled = HomeMix.sfxScheduled
          /\ mix.musicScheduled = HomeMix.musicScheduled
          /\ mix.totalDuration = HomeMix.totalDuration
          /\ mix.sampleRate = HomeMix.sampleRate
          /\ mix.numChannels = HomeMix.numChannels
          /\ mix.length = HomeMix.length
    /\ (page = "UploadPage" /\ pc = "idle" /\ data.kind = "malformed") =>
          (mix = NoMix /\ status = "Error: <exception>" /\ alive = {})

(* UploadPage has mixed a line that failed to decode before a stereo line, an  *)
(* effect that failed and one of peak 1.2, and a music bed                     *)
C29_Witness ==
    /\ page = "UploadPage"
    /\ Mixed
    /\ Len(mix.linesAudio) = 2
    /\ ~mix.linesAudio[1].decodes
    /\ mix.linesAudio[2].buffer.numberOfChannels = 2
    /\ mix.startTimes = <<0, 5293>>
    /\ mix.sampleRate = 44100 /\ mix.numChannels = 1
    /\ Len(mix.sfxList) = 2 /\ Len(mix.sfxScheduled) = 1
    /\ mix.sfxScheduled[1].gain = Fraction(600, 1200)
    /\ Len(mix.musicScheduled) = 1
    /\ mix.musicScheduled[1].gain = Fraction(180, 1000)
    /\ mix = HomeMix

-----------------------------------------------------------------------------
(* Properties of the synthesis loop of the route, checked under SpecVoices *)

(* the voice identities of the pool *)
PoolVoiceIds ==
    {"JBFqnCBsd6RMkjVDRZzb", "21m00Tcm4TlvDq8ikWAM", "ErXwobaYiN019PkySvjV",
     "XrExE9yKIg1WjnnlVkGX", "TxGEqnHWrfWFTfGW9XjX", "VR6AewLTigWG4xSOukaG",
     "AZnzlk1XvdvUeBnXmlld"}

(* C30: the route produces exactly one audio buffer per segment, in segment    *)
(* order, each spoken by a voice of the pool: the narrator voice for a         *)
(* narration segment, the voice the voice map assigns to its speaker for a     *)
(* dialogue segment, and the narrator voice for a dialogue segment whose       *)
(* speaker is missing or has no entry in the voice map.                        *)
C30_OneBufferPerSegment ==
    call.fn = "buildVoiceMap" =>
        LET segments == call.arg
            voiceMap == call.value
            out == call.audioBuffers
        IN /\ Len(out) = Len(segments)
           /\ \A i \in DOMAIN segments :
                 /\ out[i].segment = i
                 /\ out[i].voiceId \in PoolVoiceIds
                 /\ out[i].voiceId =
                       IF segments[i].type = "narration" THEN "JBFqnCBsd6RMkjVDRZzb"
                       ELSE IF segments[i].speaker # ""
                                  /\ segments[i].speaker \in DOMAIN voiceMap
                            THEN voiceMap[segments[i].speaker].voiceId
                            ELSE "JBFqnCBsd6RMkjVDRZzb"

=============================================================================
